---- MODULE Spec2Model ----
(***************************************************************************)
(* State-machine model of the stock analysis dashboard script (app.py).   *)
(* One request is one run of the script: symbol lookup through the        *)
(* provider's search endpoint, the history download with its single       *)
(* fallback interval, the fundamentals check, and the indicator and       *)
(* trade-band computation.                                                 *)
(*                                                                         *)
(* Numbers.  Prices are integers counted in ticks; Ticks ticks make one   *)
(* display unit 0.01, so round(x, 2) rounds to a multiple of Ticks.       *)
(* Quantities derived from the pivot are kept exactly, as numerators over *)
(* PivotDen (thirds of a tick).  RSI values are exact fractions <<n, d>>  *)
(* and the reported RSI is counted in hundredths.                         *)
(***************************************************************************)
EXTENDS Integers, Sequences, FiniteSets

VARIABLES
    pc,            \* position of the script: Idle, Resolving, Fetching, Retrying,
                   \* Scoring, Computing, Ready, Failed
    outcome,       \* what the finished run showed the user
    stock_query,   \* st.text_input value
    timeframe,     \* st.selectbox value; reassigned by the fallback
    search,        \* the search endpoint's response to this request
    symbol,        \* first result of suggest_symbols
    suggestions,   \* second result of suggest_symbols
    downloads,     \* the yf.download calls made so far: symbol, interval, rows kept
    columns,       \* columns of the data frame
    data,          \* rows of the data frame after dropna()
    info,          \* <<the Ticker.info response>> once check_fundamentals ran, else <<>>
    is_strong,
    sector,
    fundamentals,
    is_high,
    plan           \* the indicator values assigned so far

vars == <<pc, outcome, stock_query, timeframe, search, symbol, suggestions,
          downloads, columns, data, info, is_strong, sector, fundamentals,
          is_high, plan>>

(***************************************************************************)
(* Bounds of the model                                                     *)
(***************************************************************************)
MaxBars == 16        \* longest series the gateway returns
MaxResults == 2      \* longest quotes list the search endpoint returns
Ticks == 10          \* price ticks per display unit 0.01
BasePrice == 100000  \* first close of a generated series, in ticks (100.000)
Spread == 2          \* high - close and close - low of a bar, when not 0

(***************************************************************************)
(* Program constants                                                       *)
(***************************************************************************)
MinBars == 15        \* if len(data) < 15
RSIWindow == 14      \* rolling(window=14)
SuggestLimit == 5    \* results[:5]
HighPE == 40         \* info["trailingPE"] > 40
PivotDen == 3        \* (high + low + last_close) / 3
HttpOk == 200        \* response.status_code == 200

None == "None"       \* Python's None, where a string could stand

TimeFrames == {"1d", "1wk", "1mo"}

Min(a, b) == IF a <= b THEN a ELSE b

RECURSIVE SumTo(_, _, _)
\* sum of f[j] for j in a..b
SumTo(f, a, b) == IF a > b THEN 0 ELSE f[b] + SumTo(f, a, b - 1)

RECURSIVE MaxOf(_, _)
MaxOf(f, n) == IF n = 1 THEN f[1]
               ELSE LET m == MaxOf(f, n - 1) IN IF f[n] > m THEN f[n] ELSE m

RECURSIVE MinOf(_, _)
MinOf(f, n) == IF n = 1 THEN f[1]
               ELSE LET m == MinOf(f, n - 1) IN IF f[n] < m THEN f[n] ELSE m

\* n / d rounded to the nearest integer, ties to the even one (Python's round)
RoundDiv(n, d) ==
    LET q == n \div d
        r == n % d
    IN  IF 2 * r < d THEN q
        ELSE IF 2 * r > d THEN q + 1
        ELSE IF q % 2 = 0 THEN q ELSE q + 1

\* round(n / d, 2) of a value counted in ticks, as a number of ticks
Round2(n, d) == RoundDiv(n, d * Ticks) * Ticks

(***************************************************************************)
(* What the provider can answer                                            *)
(***************************************************************************)
Symbols == {"RELIANCE.NS", "TCS.NS"}

\* a quotes item that has no 'symbol' key
NoSymbolKey == "(no symbol)"
Queries == {"Reliance"}

RECURSIVE SeqsUpTo(_, _)
\* all sequences over S of length 0..n
SeqsUpTo(S, n) ==
    IF n = 0 THEN {<<>>}
    ELSE LET shorter == SeqsUpTo(S, n - 1)
         IN  shorter \cup {Append(q, x) : q \in {t \in shorter : Len(t) = n - 1}, x \in S}

\* responses of the search endpoint: the request raises, or answers with a
\* status code and a quotes list
SearchResponses ==
    {[raises |-> TRUE, status |-> 0, quotes |-> <<>>],
     [raises |-> FALSE, status |-> 500, quotes |-> <<>>]}
    \cup {[raises |-> FALSE, status |-> HttpOk, quotes |-> q] :
            q \in SeqsUpTo(Symbols \cup {NoSymbolKey}, MaxResults)}

NoSearch == [raises |-> FALSE, status |-> 0, quotes |-> <<>>]

\* one row of a price frame; ok is FALSE for a row with a missing field
Bar(c, s) == [ok |-> TRUE, Close |-> c, High |-> c + s, Low |-> c - s]
MissingBar == [ok |-> FALSE, Close |-> 0, High |-> 0, Low |-> 0]

RECURSIVE CloseAt(_, _, _, _)
\* the i-th close of the series that starts at base, moves by head[1], head[2],
\* ... and by tail after that
CloseAt(i, base, head, tail) ==
    IF i = 1 THEN base
    ELSE CloseAt(i - 1, base, head, tail)
         + (IF i - 1 <= Len(head) THEN head[i - 1] ELSE tail)

Series(n, base, head, tail, s) == [i \in 1..n |-> Bar(CloseAt(i, base, head, tail), s)]

AllColumns == {"Close", "High", "Low"}
Frame(rows) == [raises |-> FALSE, columns |-> AllColumns, rows |-> rows]

BarCounts == {1} \cup ((MinBars - 2)..MaxBars)

\* responses of yf.download in a request
HistoryResponses ==
    {[raises |-> TRUE, columns |-> {}, rows |-> <<>>],
     [raises |-> FALSE, columns |-> {}, rows |-> <<>>],
     Frame(<<>>),
     Frame([i \in 1..MinBars |-> MissingBar]),
     Frame(<<MissingBar>> \o Series(RSIWindow, BasePrice, <<1>>, 1, 0))}
    \cup {Frame(Series(n, BasePrice, <<h>>, t, 0)) : n \in BarCounts, h \in {-1, 0}, t \in {0, 1}}

\* the price frames the indicator computation is explored on
IndicatorFrames ==
    {Series(n, b, h, t, s) :
        n \in MinBars..MaxBars,
        b \in {BasePrice, BasePrice + 4, BasePrice + 6},
        h \in {<<x, y>> : x \in {-1, 0, 1}, y \in {-2, 0, 1}},
        t \in {-1, 0, 1},
        s \in {0, Spread}}

RatioNames == {"priceToBook", "returnOnEquity", "trailingPE", "enterpriseToEbitda",
               "enterpriseToRevenue"}

Absent == [kind |-> "absent", v |-> 0]
NoneVal == [kind |-> "none", v |-> 0]
Num(x) == [kind |-> "num", v |-> x]
Str == [kind |-> "str", v |-> 0]
RatioValues == {Absent, Num(0), Num(50), Str}

EmptyDict == [r \in {} |-> NoneVal]

SECTOR_RATIOS ==
    [s \in {"Banks", "NBFCs", "IT Services", "FMCG", "Pharmaceuticals", "Steel",
            "Cement", "Retail"} |->
        CASE s = "Banks" -> <<"priceToBook", "returnOnEquity">>
          [] s = "NBFCs" -> <<"priceToBook", "trailingPE">>
          [] s = "IT Services" -> <<"trailingPE", "enterpriseToEbitda">>
          [] s = "FMCG" -> <<"trailingPE", "enterpriseToEbitda">>
          [] s = "Pharmaceuticals" -> <<"trailingPE", "enterpriseToEbitda">>
          [] s = "Steel" -> <<"enterpriseToEbitda">>
          [] s = "Cement" -> <<"enterpriseToEbitda">>
          [] s = "Retail" -> <<"trailingPE", "enterpriseToRevenue">>]

\* SECTOR_RATIOS.get(sector, [])
SectorRatios(s) == IF s \in DOMAIN SECTOR_RATIOS THEN SECTOR_RATIOS[s] ELSE <<>>

Range(q) == {q[i] : i \in 1..Len(q)}

Sectors == {None, "Banks", "Steel", "Textiles"}

\* responses of Ticker(symbol).info: the keys that vary are the sector's
\* ratios and trailingPE, every other ratio is absent
InfoResponses ==
    {[raises |-> TRUE, sector |-> None, ratios |-> [r \in RatioNames |-> Absent]]}
    \cup UNION {
        {[raises |-> FALSE, sector |-> s,
          ratios |-> [r \in RatioNames |-> IF r \in DOMAIN f THEN f[r] ELSE Absent]] :
            f \in [Range(SectorRatios(s)) \cup {"trailingPE"} -> RatioValues]}
        : s \in Sectors}

(***************************************************************************)
(* suggest_symbols                                                         *)
(***************************************************************************)
\* a lookup that takes the last result instead of the first
LastSymbol(results) == results[Len(results)]

\* results[0]['symbol']
TopSymbol(results) == results[1]

\* results[:5]
FirstResults(results) == SubSeq(results, 1, Min(SuggestLimit, Len(results)))

\* item['symbol'] raises KeyError for one of results[:5]; the bare except
\* turns it into (None, [])
KeyErrorInSuggestions(results) ==
    \E i \in 1..Len(FirstResults(results)) : results[i] = NoSymbolKey

\* suggest_symbols(query): <<symbol, suggestions>> for a response of the search
\* endpoint
suggest_symbols(resp) ==
    IF resp.raises \/ resp.status # HttpOk THEN <<None, <<>>>>
    ELSE IF KeyErrorInSuggestions(resp.quotes) THEN <<None, <<>>>>
    ELSE IF resp.quotes # <<>>
         THEN <<TopSymbol(resp.quotes), FirstResults(resp.quotes)>>
         ELSE <<None, <<>>>>

(***************************************************************************)
(* check_fundamentals                                                      *)
(***************************************************************************)
\* info.get(ratio)
Get(ratios, r) == IF ratios[r].kind = "absent" THEN NoneVal ELSE ratios[r]

\* val and isinstance(val, (int, float)) and val > 0
CountsTowardsScore(val) == val.kind = "num" /\ val.v > 0

\* the number of the sector's ratios that score
Score(ratios, wanted) ==
    Cardinality({i \in 1..Len(wanted) : CountsTowardsScore(Get(ratios, wanted[i]))})

\* score >= len(ratios) // 2
StrongEnough(score, n) == score >= n \div 2

\* the tuple check_fundamentals returns when the snapshot has no sector
NoSectorResult == <<FALSE, None, EmptyDict>>

\* an except branch that returns the three-element tuple of the no-sector branch
FetchFailedShortTuple == <<FALSE, None, EmptyDict>>

\* the tuple check_fundamentals returns from its except branch
FetchFailedResult == <<FALSE, None, EmptyDict, FALSE>>

\* check_fundamentals(symbol), for the response of Ticker(symbol).info
check_fundamentals(resp) ==
    IF resp.raises THEN FetchFailedResult
    ELSE IF resp.sector = None THEN NoSectorResult
    ELSE LET wanted == SectorRatios(resp.sector)
             found == [r \in Range(wanted) |-> Get(resp.ratios, r)]
             pe == resp.ratios["trailingPE"]
             high_valued == pe.kind = "num" /\ pe.v > HighPE
         IN  <<StrongEnough(Score(resp.ratios, wanted), Len(wanted)), resp.sector,
               found, high_valued>>

(***************************************************************************)
(* History download and fallback                                           *)
(***************************************************************************)
\* a fallback table that sends 1mo back to 1wk
alt_frames_cyclic(tf) == CASE tf = "1d" -> "1wk" [] tf = "1wk" -> "1mo" [] tf = "1mo" -> "1wk"

\* alt_frames.get(timeframe)
alt_frames(tf) == CASE tf = "1d" -> "1wk" [] tf = "1wk" -> "1mo" [] tf = "1mo" -> None

\* DataFrame.dropna()
dropna(rows) == SelectSeq(rows, LAMBDA b : b.ok)

\* a usability check that forgets data.empty
UnusableWithoutEmptyCheck(cols, rows) == "Close" \notin cols

\* data is None or data.empty or 'Close' not in data.columns
Unusable(cols, rows) == rows = <<>> \/ "Close" \notin cols

\* len(data) < 15
TooShort(rows) == Len(rows) < MinBars

(***************************************************************************)
(* Indicators                                                              *)
(***************************************************************************)
Closes(rows) == [i \in 1..Len(rows) |-> rows[i].Close]

\* float(data['Close'].dropna().iloc[-1])
LastClose(rows) == rows[Len(rows)].Close

\* float(data['High'].max())
HighOverall(rows) == MaxOf([i \in 1..Len(rows) |-> rows[i].High], Len(rows))

\* float(data['Low'].min())
LowOverall(rows) == MinOf([i \in 1..Len(rows) |-> rows[i].Low], Len(rows))

\* fib_levels, in thousandths
fib_levels == <<236, 382, 500, 618, 786>>

\* {f"{int(level*100)}%": round(high - (high - low) * level, 2)}, keyed by the
\* integer percentage
FibValues(high, low) ==
    [k \in {fib_levels[i] \div 10 : i \in 1..Len(fib_levels)} |->
        LET level == CHOOSE l \in Range(fib_levels) : l \div 10 = k
        IN  Round2(1000 * high - (high - low) * level, 1000)]

\* delta = data['Close'].diff(); gain = delta.where(delta > 0, 0): the first
\* delta is NaN, and where() puts 0 in its place
Gain(c) == [i \in 1..Len(c) |-> IF i > 1 /\ c[i] - c[i - 1] > 0 THEN c[i] - c[i - 1] ELSE 0]

\* loss = -delta.where(delta < 0, 0)
Loss(c) == [i \in 1..Len(c) |-> IF i > 1 /\ c[i] - c[i - 1] < 0 THEN c[i - 1] - c[i] ELSE 0]

NaN == [kind |-> "nan", n |-> 0, d |-> 1]
Inf == [kind |-> "inf", n |-> 0, d |-> 1]
Frac(n, d) == [kind |-> "num", n |-> n, d |-> d]

\* rolling(window=14).mean() at row i, as the window's sum (the mean is the
\* sum over RSIWindow); NaN before the window is full
RollingSum(f, i) == SumTo(f, i - RSIWindow + 1, i)

\* rs = avg_gain / avg_loss for window sums g and l: x/0 is inf, 0/0 is NaN
RelativeStrength(g, l) ==
    IF l = 0 THEN (IF g = 0 THEN NaN ELSE Inf) ELSE Frac(g, l)

\* rsi = 100 - (100 / (1 + rs))
RsiOf(rs) ==
    CASE rs.kind = "nan" -> NaN
      [] rs.kind = "inf" -> Frac(100, 1)
      [] OTHER -> Frac(100 * rs.n, rs.n + rs.d)

\* the rsi column
RsiSeries(c) ==
    [i \in 1..Len(c) |->
        IF i < RSIWindow THEN NaN
        ELSE RsiOf(RelativeStrength(RollingSum(Gain(c), i), RollingSum(Loss(c), i)))]

\* rsi.dropna()
RsiDropna(q) == SelectSeq(q, LAMBDA x : x.kind # "nan")

\* round(float(rsi.dropna().iloc[-1]), 2), in hundredths
CurrentRsi(c) ==
    LET kept == RsiDropna(RsiSeries(c))
        last == kept[Len(kept)]
    IN  RoundDiv(100 * last.n, last.d)

\* round(data['Close'].rolling(window=w).mean().iloc[-1], 2) if len(data) >= w
\* else "-": <<value>> or <<>>
MovingAverage(c, w) ==
    IF Len(c) >= w THEN <<Round2(SumTo(c, Len(c) - w + 1, Len(c)), w)>> ELSE <<>>

\* pivot = (high + low + last_close) / 3, as a numerator over PivotDen
Pivot(high, low, last_close) == high + low + last_close

\* r1 = 2 * (pivot - low): a misplaced parenthesis
R1Parenthesised(pivot, low) == 2 * (pivot - PivotDen * low)

\* r1 = 2 * pivot - low, over PivotDen
R1(pivot, low) == 2 * pivot - PivotDen * low

\* s1 = 2 * high - pivot: the operands swapped
S1Swapped(pivot, high) == 2 * PivotDen * high - pivot

\* s1 = 2 * pivot - high, over PivotDen
S1(pivot, high) == 2 * pivot - PivotDen * high

\* what lines 114-119 assign
Levels(rows) ==
    [last_close |-> LastClose(rows),
     high |-> HighOverall(rows),
     low |-> LowOverall(rows),
     fib_values |-> FibValues(HighOverall(rows), LowOverall(rows))]

\* what lines 114-142 assign
TradePlan(rows) ==
    LET last_close == LastClose(rows)
        high == HighOverall(rows)
        low == LowOverall(rows)
        pivot == Pivot(high, low, last_close)
        r1 == R1(pivot, low)
        s1 == S1(pivot, high)
    IN  [last_close |-> last_close,
         high |-> high,
         low |-> low,
         fib_values |-> FibValues(high, low),
         current_rsi |-> CurrentRsi(Closes(rows)),
         ma20 |-> MovingAverage(Closes(rows), 20),
         ma50 |-> MovingAverage(Closes(rows), 50),
         ma200 |-> MovingAverage(Closes(rows), 200),
         pivot |-> pivot,
         r1 |-> r1,
         s1 |-> s1,
         entry_low |-> Round2(pivot * 98, PivotDen * 100),
         entry_high |-> Round2(pivot * 102, PivotDen * 100),
         target_low |-> Round2(r1, PivotDen),
         target_high |-> Round2(r1 + (r1 - pivot), PivotDen),
         stop_loss |-> Round2(s1, PivotDen)]

NoPlan == [k \in {} |-> 0]

(***************************************************************************)
(* The script, one action per stretch between two calls to the provider    *)
(***************************************************************************)
Terminal == {"Ready", "Failed"}

Init ==
    /\ pc = "Idle"
    /\ outcome = None
    /\ stock_query = ""
    /\ timeframe = "1d"
    /\ search = NoSearch
    /\ symbol = None
    /\ suggestions = <<>>
    /\ downloads = <<>>
    /\ columns = {}
    /\ data = <<>>
    /\ info = <<>>
    /\ is_strong = FALSE
    /\ sector = None
    /\ fundamentals = EmptyDict
    /\ is_high = FALSE
    /\ plan = NoPlan

\* A run of the script with the widgets' values q and tf (lines 27-28, 73):
\* nothing carries over from the run before; an empty query runs nothing.
Submit(q, tf) ==
    /\ pc \in {"Idle"} \cup Terminal
    /\ pc' = IF q = "" THEN "Idle" ELSE "Resolving"
    /\ outcome' = None
    /\ stock_query' = q
    /\ timeframe' = tf
    /\ search' = NoSearch
    /\ symbol' = None
    /\ suggestions' = <<>>
    /\ downloads' = <<>>
    /\ columns' = {}
    /\ data' = <<>>
    /\ info' = <<>>
    /\ is_strong' = FALSE
    /\ sector' = None
    /\ fundamentals' = EmptyDict
    /\ is_high' = FALSE
    /\ plan' = NoPlan

\* lines 76-82
Resolve ==
    /\ pc = "Resolving"
    /\ \E resp \in SearchResponses :
        LET got == suggest_symbols(resp)
        IN  /\ search' = resp
            /\ symbol' = got[1]
            /\ suggestions' = got[2]
            /\ IF got[1] = None
               THEN pc' = "Failed" /\ outcome' = "SymbolNotFound"
               ELSE pc' = "Fetching" /\ outcome' = outcome
    /\ UNCHANGED <<stock_query, timeframe, downloads, columns, data, info, is_strong,
                   sector, fundamentals, is_high, plan>>

\* lines 86-99 without the fallback download: where the script goes with the
\* first frame, <<pc, outcome>>
AfterFirstFetch(cols, rows, tf) ==
    IF Unusable(cols, rows) THEN <<"Failed", "DataUnavailable">>
    ELSE IF TooShort(rows)
         THEN IF alt_frames(tf) # None THEN <<"Retrying", None>>
              ELSE <<"Failed", "InsufficientData">>
         ELSE <<"Scoring", None>>

\* lines 84-94 and 97-99
FetchHistory ==
    /\ pc = "Fetching"
    /\ \E resp \in HistoryResponses :
        LET rows == dropna(resp.rows)
            next == AfterFirstFetch(resp.columns, rows, timeframe)
        IN  /\ downloads' = Append(downloads,
                    [symbol |-> symbol, interval |-> timeframe, bars |-> Len(rows),
                     raised |-> resp.raises])
            /\ IF resp.raises
               THEN /\ pc' = "Failed"
                    /\ outcome' = "UnexpectedError"
                    /\ UNCHANGED <<columns, data>>
               ELSE /\ columns' = resp.columns
                    /\ data' = rows
                    /\ pc' = next[1]
                    /\ outcome' = next[2]
    /\ UNCHANGED <<stock_query, timeframe, search, symbol, suggestions, info, is_strong,
                   sector, fundamentals, is_high, plan>>

\* lines 95-96
FetchFallback ==
    /\ pc = "Retrying"
    /\ \E resp \in HistoryResponses :
        LET rows == dropna(resp.rows)
            next_tf == alt_frames(timeframe)
        IN  /\ downloads' = Append(downloads,
                    [symbol |-> symbol, interval |-> next_tf, bars |-> Len(rows),
                     raised |-> resp.raises])
            /\ IF resp.raises
               THEN /\ pc' = "Failed"
                    /\ outcome' = "UnexpectedError"
                    /\ UNCHANGED <<columns, data, timeframe>>
               ELSE /\ columns' = resp.columns
                    /\ data' = rows
                    /\ timeframe' = next_tf
                    /\ pc' = "Scoring"
                    /\ outcome' = outcome
    /\ UNCHANGED <<stock_query, search, symbol, suggestions, info, is_strong, sector,
                   fundamentals, is_high, plan>>

\* lines 102-105 and 184-185: the four-name unpacking raises ValueError on a
\* tuple of another length
Screen ==
    /\ pc = "Scoring"
    /\ \E resp \in InfoResponses :
        LET t == check_fundamentals(resp)
        IN  /\ info' = <<resp>>
            /\ IF Len(t) # 4
               THEN /\ pc' = "Failed"
                    /\ outcome' = "UnexpectedError"
                    /\ UNCHANGED <<is_strong, sector, fundamentals, is_high>>
               ELSE /\ is_strong' = t[1]
                    /\ sector' = t[2]
                    /\ fundamentals' = t[3]
                    /\ is_high' = t[4]
                    /\ IF t[1]
                       THEN pc' = "Computing" /\ outcome' = outcome
                       ELSE pc' = "Failed" /\ outcome' = "NotStrong"
    /\ UNCHANGED <<stock_query, timeframe, search, symbol, suggestions, downloads,
                   columns, data, plan>>

\* data['Close'].dropna().iloc[-1] raises on a frame with no Close column or no row
FaultsAtLastClose(cols, rows) == "Close" \notin cols \/ rows = <<>>

\* rsi.dropna().iloc[-1] raises when no row of the rsi column holds a number
FaultsAtRsi(rows) == RsiDropna(RsiSeries(Closes(rows))) = <<>>

\* lines 114-182
Compute ==
    /\ pc = "Computing"
    /\ IF FaultsAtLastClose(columns, data)
       THEN pc' = "Failed" /\ outcome' = "UnexpectedError" /\ plan' = plan
       ELSE IF FaultsAtRsi(data)
       THEN pc' = "Failed" /\ outcome' = "UnexpectedError" /\ plan' = Levels(data)
       ELSE pc' = "Ready" /\ outcome' = "Ready" /\ plan' = TradePlan(data)
    /\ UNCHANGED <<stock_query, timeframe, search, symbol, suggestions, downloads,
                   columns, data, info, is_strong, sector, fundamentals, is_high>>

Next ==
    \/ \E q \in Queries \cup {""}, tf \in TimeFrames : Submit(q, tf)
    \/ Resolve
    \/ FetchHistory
    \/ FetchFallback
    \/ Screen
    \/ Compute

Spec == Init /\ [][Next]_vars

(***************************************************************************)
(* The indicator computation on its own: the script stands at line 114     *)
(* with a frame of at least MinBars rows from its first download and a     *)
(* strong verdict.                                                         *)
(***************************************************************************)
StrongBank ==
    [raises |-> FALSE, sector |-> "Banks",
     ratios |-> [r \in RatioNames |->
                    IF r \in {"priceToBook", "returnOnEquity"} THEN Num(50) ELSE Absent]]

InitIndicators ==
    /\ pc = "Computing"
    /\ outcome = None
    /\ stock_query \in Queries
    /\ timeframe \in TimeFrames
    /\ search = [raises |-> FALSE, status |-> HttpOk, quotes |-> <<"TCS.NS">>]
    /\ symbol = "TCS.NS"
    /\ suggestions = <<"TCS.NS">>
    /\ data \in IndicatorFrames
    /\ columns = AllColumns
    /\ downloads = <<[symbol |-> symbol, interval |-> timeframe, bars |-> Len(data),
                      raised |-> FALSE]>>
    /\ info = <<StrongBank>>
    /\ is_strong = check_fundamentals(StrongBank)[1]
    /\ sector = check_fundamentals(StrongBank)[2]
    /\ fundamentals = check_fundamentals(StrongBank)[3]
    /\ is_high = check_fundamentals(StrongBank)[4]
    /\ plan = NoPlan

NextIndicators == Compute

SpecIndicators == InitIndicators /\ [][NextIndicators]_vars

(***************************************************************************)
(* Properties                                                              *)
(***************************************************************************)
IndicatorsComputed == DOMAIN plan # {}

\* both downloads of the request answered, each with fewer than MinBars rows
BothDownloadsShort ==
    /\ Len(downloads) = 2
    /\ ~downloads[1].raised /\ downloads[1].bars < MinBars
    /\ ~downloads[2].raised /\ downloads[2].bars < MinBars

\* C1: the indicator computation is started only on a frame of at least 15
\* rows; when the first download and the fallback download both give fewer
\* than 15 rows, the run ends in the insufficient-data failure and no
\* indicator is computed.
C1_IndicatorsOnlyOnEnoughBars ==
    /\ pc = "Computing" => Len(data) >= MinBars
    /\ IndicatorsComputed => Len(data) >= MinBars
    /\ BothDownloadsShort
            => (pc = "Failed" /\ outcome = "InsufficientData" /\ ~IndicatorsComputed)

\* the first download answered with no usable row
FirstDownloadEmpty ==
    /\ Len(downloads) >= 1
    /\ ~downloads[1].raised
    /\ downloads[1].bars = 0

Max(a, b) == IF a >= b THEN a ELSE b

\* check_fundamentals ran on a snapshot that has a sector
ScreenedWithSector == info # <<>> /\ ~info[1].raises /\ info[1].sector # None

\* C3: with a sector in the snapshot, isStrong holds exactly when the number
\* of the sector's ratios that are present, numeric and positive is at least
\* max(1, floor(n/2)), n the length of the sector's ratio list (0 for a
\* sector outside the table).
C3_StrongIffEnoughRatios ==
    ScreenedWithSector =>
        LET wanted == SectorRatios(info[1].sector)
        IN  is_strong <=> (Score(info[1].ratios, wanted) >= Max(1, Len(wanted) \div 2))

\* the fundamentals fetch raised inside check_fundamentals
FundamentalsFetchFailed == info # <<>> /\ info[1].raises

\* C4 as claimed: after a failed fundamentals fetch the verdict is isStrong =
\* false, sector = None, the run is not aborted, and the indicators and the
\* trade plan are still computed on a frame of at least 15 rows.
C4_IndicatorsStillComputed ==
    (FundamentalsFetchFailed /\ Len(data) >= MinBars)
        => /\ ~is_strong
           /\ sector = None
           /\ outcome # "UnexpectedError"
           /\ IndicatorsComputed

\* C4 as amended: after a failed fundamentals fetch the verdict is isStrong =
\* false, sector = None with no ratios and no high-valuation flag, and the
\* run ends as not strong, not in the unexpected-error outcome, with no
\* indicator computed.
C4_FetchFailureEndsNotStrong ==
    FundamentalsFetchFailed
        => /\ ~is_strong
           /\ sector = None
           /\ DOMAIN fundamentals = {}
           /\ ~is_high
           /\ pc = "Failed"
           /\ outcome = "NotStrong"
           /\ ~IndicatorsComputed

C4_Witness ==
    /\ FundamentalsFetchFailed
    /\ Len(data) >= MinBars
    /\ outcome = "NotStrong"

\* C5: a snapshot with no sector is delivered as an ordinary verdict,
\* isStrong = false and sector = None, in a tuple of the same length as on
\* the other return paths, and the run does not end in the unexpected-error
\* outcome at the screening step.
C5_NoSectorIsOrdinaryVerdict ==
    (info # <<>> /\ ~info[1].raises /\ info[1].sector = None)
        => /\ Len(check_fundamentals(info[1])) = Len(FetchFailedResult)
           /\ ~is_strong
           /\ sector = None
           /\ pc = "Failed"
           /\ outcome = "NotStrong"

\* how far the script has got
Rank(p) ==
    CASE p = "Idle" -> 0
      [] p = "Resolving" -> 1
      [] p = "Fetching" -> 2
      [] p = "Retrying" -> 3
      [] p = "Scoring" -> 4
      [] p = "Computing" -> 5
      [] p \in Terminal -> 6

\* a request makes at most two downloads, the second with the fallback
\* interval of the first (1d to 1wk, 1wk to 1mo); a 1mo request whose frame
\* has fewer than MinBars rows has ended after its one download, in the
\* insufficient-data failure (data-unavailable when the frame has no row)
AtMostOneFallback ==
    /\ Len(downloads) <= 2
    /\ Len(downloads) = 2
            => <<downloads[1].interval, downloads[2].interval>>
                    \in {<<"1d", "1wk">>, <<"1wk", "1mo">>}
    /\ (Len(downloads) >= 1 /\ downloads[1].interval = "1mo"
            /\ ~downloads[1].raised /\ downloads[1].bars < MinBars)
            => /\ Len(downloads) = 1
               /\ pc = "Failed"
               /\ outcome = IF downloads[1].bars = 0 THEN "DataUnavailable"
                            ELSE "InsufficientData"

\* a step of a running request moves the script forward, and a finished run
\* is only left by the next run of the script
StepAdvances ==
    /\ pc \notin Terminal \cup {"Idle"} => Rank(pc') > Rank(pc)
    /\ pc \in Terminal => Rank(pc') <= Rank("Resolving")

C7_SymmetricAroundPivot ==
    "pivot" \in DOMAIN plan => plan.r1 - plan.pivot = plan.pivot - plan.s1

\* C7 as amended: R1 - pivot = pivot - low and pivot - S1 = high - pivot, so
\* R1 - S1 = high - low, and R1 and S1 are symmetric around the pivot exactly
\* when last_close = (high + low) / 2.  (All over PivotDen.)
C7_PivotDistances ==
    "pivot" \in DOMAIN plan =>
        /\ plan.r1 - plan.pivot = plan.pivot - PivotDen * plan.low
        /\ plan.pivot - plan.s1 = PivotDen * plan.high - plan.pivot
        /\ plan.r1 - plan.s1 = PivotDen * (plan.high - plan.low)
        /\ (plan.r1 - plan.pivot = plan.pivot - plan.s1)
                <=> (2 * plan.last_close = plan.high + plan.low)

C7_Witness ==
    /\ "pivot" \in DOMAIN plan
    /\ plan.high > plan.low
    /\ 2 * plan.last_close # plan.high + plan.low

\* the sum of the losses over the most recent RSIWindow deltas is 0
LastWindowHasNoLoss ==
    /\ Len(data) >= MinBars
    /\ RollingSum(Loss(Closes(data)), Len(data)) = 0

\* C8: on a frame of at least 15 rows, when the average loss over the most
\* recent 14 deltas is 0 (all gains, or no change), the run reports RSI 100,
\* the value of that window, and raises no fault.
C8_ZeroLossReportsHundred ==
    (pc \in Terminal /\ LastWindowHasNoLoss)
        => (outcome = "Ready" /\ plan.current_rsi = 100 * 100)

SearchAnswered ==
    /\ ~search.raises
    /\ search.status = HttpOk
    /\ search.quotes # <<>>
    /\ \A i \in 1..Len(search.quotes) : i <= SuggestLimit => search.quotes[i] \in Symbols

PricesInRange ==
    /\ 0 < plan.low
    /\ plan.low <= plan.last_close
    /\ plan.last_close <= plan.high

\* C10 as claimed: the displayed plan is ordered around the pivot:
\* stop_loss <= pivot <= target_low <= target_high and
\* entry_low <= pivot <= entry_high.
C10_OrderedAroundPivot ==
    (outcome = "Ready" /\ PricesInRange)
        => /\ PivotDen * plan.stop_loss <= plan.pivot
           /\ plan.pivot <= PivotDen * plan.target_low
           /\ plan.target_low <= plan.target_high
           /\ PivotDen * plan.entry_low <= plan.pivot
           /\ plan.pivot <= PivotDen * plan.entry_high

\* C10 as amended: the levels before rounding are ordered around the pivot,
\* S1 <= pivot <= R1 <= R1 + (R1 - pivot) and 0.98 pivot <= pivot <= 1.02
\* pivot, and the displayed plan is ordered around the pivot rounded as the
\* plan is: stop_loss <= round(pivot, 2) <= target_low <= target_high and
\* entry_low <= round(pivot, 2) <= entry_high.
C10_OrderedAroundRoundedPivot ==
    (outcome = "Ready" /\ PricesInRange)
        => LET shown == Round2(plan.pivot, PivotDen)
           IN  /\ plan.s1 <= plan.pivot
               /\ plan.pivot <= plan.r1
               /\ plan.r1 <= plan.r1 + (plan.r1 - plan.pivot)
               /\ plan.stop_loss = Round2(plan.s1, PivotDen)
               /\ plan.target_low = Round2(plan.r1, PivotDen)
               /\ plan.stop_loss <= shown
               /\ shown <= plan.target_low
               /\ plan.target_low <= plan.target_high
               /\ plan.entry_low <= shown
               /\ shown <= plan.entry_high

C10_Witness ==
    /\ outcome = "Ready"
    /\ PricesInRange
    /\ plan.low < plan.last_close
    /\ plan.last_close < plan.high
    /\ PivotDen * plan.stop_loss > plan.pivot

====
